---- MODULE Spec2Model ----
(***************************************************************************)
(* A model of the Galatea-OS voice agent: the configuration resolver and   *)
(* session orchestrator of rime_agent.py, and the transcript logger and    *)
(* retrieval tool of tools/snowflake_rag_tool.py.                          *)
(*                                                                         *)
(* Python strings are sequences of one-character strings, so that strip(), *)
(* startswith() and slicing are computed.  A few long fixed texts (a JSON  *)
(* document, a fixed reply of the tool) are a single element of such a     *)
(* sequence: they hold no whitespace at either end, so strip() treats them *)
(* as it treats one non-blank character.                                   *)
(***************************************************************************)
EXTENDS Naturals, Sequences, FiniteSets

VARIABLES
    env,            \* the process environment (os.getenv), fixed for a run
    builtin,        \* VOICE_CONFIGS[VOICE], the built-in profile of agent_configs
    LOADED_CONFIG,  \* the module global of rime_agent.py
    epc,            \* where _parse_config_and_run / entrypoint stands
    resolved,       \* voice_name, rime_tts, llm_prompt, intro_phrase of entrypoint
    observers,      \* the events session.on has a handler for
    agent,          \* the agent handed to session.start
    spoken,         \* what session.say was given
    tasks,          \* the transcript writes scheduled so far, in scheduling order
    rows,           \* the rows the warehouse has received, in insertion order
    connects,       \* the number of snowflake.connector.connect calls so far
    rag,            \* the retrieval tool call the model turn waits for
    calls,          \* the number of retrieval tool calls so far
    events,         \* the conversation_item_added events handed to the observer
    log,            \* the steps the current run of entrypoint has taken, in order
    userdata,       \* proc.userdata["vad"]: the instance prewarm stored, 0 before
    sessions,       \* the capability instances of each AgentSession of the process
    made            \* the number of capability instances constructed so far

\* ------------------------------------------------------------------ bounds

\* The number of Transcript Logger invocations of one run.
MaxWrites == 1

\* The number of retrieval tool calls of one run.
MaxCalls == 1

\* The number of conversation items of one session.
MaxItems == 2

\* The number of Transcript Logger invocations of a run with long messages.
MaxLongWrites == 1

\* The worker threads of the event loop's default executor.
MaxWorkers == 2

\* The number of jobs one worker process runs entrypoint for.
MaxSessions == 2

\* ------------------------------------------------------------ Python values

\* None, of the shape of a string so that it compares with one.
None == <<"<None>">>

\* str.strip() with no argument removes these from both ends.
WhiteSpace == {" ", "\n"}

\* The truth value of an Optional[str]: None and "" are falsy.
Truthy(s) == s # None /\ s # <<>>

\* x or y
Or(x, y) == IF Truthy(x) THEN x ELSE y

RECURSIVE LStrip(_)
LStrip(s) == IF s # <<>> /\ Head(s) \in WhiteSpace THEN LStrip(Tail(s)) ELSE s

RECURSIVE RStrip(_)
RStrip(s) ==
    IF s # <<>> /\ s[Len(s)] \in WhiteSpace THEN RStrip(SubSeq(s, 1, Len(s) - 1)) ELSE s

\* str.strip()
Strip(s) == RStrip(LStrip(s))

\* s[:n]
Slice(s, n) == SubSeq(s, 1, IF Len(s) < n THEN Len(s) ELSE n)

\* The exceptions the model raises; each is a subclass of Exception.
Exceptions ==
    {"FileNotFoundError", "ValueError", "DatabaseError", "ProgrammingError",
     "OperationalError", "JSONDecodeError", "KeyError", "IndexError", "TypeError",
     "AttributeError"}

\* No retrieval tool call has been made.
NoCall ==
    [pc |-> "idle", question |-> <<>>, statement |-> "", prompt |-> <<>>,
     connects |-> 0, conn |-> "none", fault |-> "none", row |-> "none",
     column |-> <<>>, ret |-> <<>>, exc |-> ""]

\* ------------------------------------------------------------ environment

\* The private key files on disk: one loads, one is no PEM key, any other path
\* names no file.
KeyFileState(path) ==
    CASE path = <<"key.pem">> -> "valid"
      [] path = <<"bad.pem">> -> "malformed"
      [] OTHER -> "missing"

Accounts == {None, <<>>, <<"a">>}
Users == {None, <<"u">>}
Passwords == {None, <<"p">>}
KeyPaths == {None, <<"key.pem">>, <<"bad.pem">>, <<"gone.pem">>}

\* SNOWFLAKE_CHAT_TABLE: unset, empty, blank, an identifier, an identifier in
\* whitespace, and names holding a character that is no letter, digit or underscore.
ChatTables ==
    {None, <<>>, <<" ">>, <<"t">>, <<" ", "T", "_", "0", "\n">>, <<"t", ";">>,
     <<"t", " ", "t">>}

\* The environments of a run of the Transcript Logger.
LoggerEnvs ==
    [ACCOUNT : Accounts, USER : Users, PASSWORD : Passwords,
     PRIVATE_KEY_PATH : KeyPaths, CHAT_TABLE : ChatTables, RAG_SQL : {None},
     RAG_SYSTEM_INSTRUCTION : {None}]

\* ------------------------------------------------- _get_connection_params

\* GetConnectionParams with a fault: only the account is asked for.
GetConnectionParamsAccountOnly(e) ==
    IF ~Truthy(e.ACCOUNT) THEN [kind |-> "none", cred |-> "", exc |-> ""]
    ELSE IF Truthy(e.PASSWORD) THEN [kind |-> "params", cred |-> "password", exc |-> ""]
    ELSE IF Truthy(e.PRIVATE_KEY_PATH) THEN
        CASE KeyFileState(e.PRIVATE_KEY_PATH) = "valid" ->
                [kind |-> "params", cred |-> "private_key", exc |-> ""]
          [] KeyFileState(e.PRIVATE_KEY_PATH) = "malformed" ->
                [kind |-> "raise", cred |-> "", exc |-> "ValueError"]
          [] OTHER -> [kind |-> "raise", cred |-> "", exc |-> "FileNotFoundError"]
    ELSE [kind |-> "none", cred |-> "", exc |-> ""]

NoParams == [kind |-> "none", cred |-> "", exc |-> ""]

\* SNOWFLAKE_WAREHOUSE, _DATABASE, _SCHEMA and _ROLE only fill optional connection
\* fields and decide nothing: the parameters are the credential chosen.
GetConnectionParams(e) ==
    IF ~Truthy(e.ACCOUNT) \/ ~Truthy(e.USER) THEN NoParams
    ELSE IF Truthy(e.PASSWORD) THEN [kind |-> "params", cred |-> "password", exc |-> ""]
    ELSE IF Truthy(e.PRIVATE_KEY_PATH) THEN
        CASE KeyFileState(e.PRIVATE_KEY_PATH) = "valid" ->
                [kind |-> "params", cred |-> "private_key", exc |-> ""]
          [] KeyFileState(e.PRIVATE_KEY_PATH) = "malformed" ->
                [kind |-> "raise", cred |-> "", exc |-> "ValueError"]
          [] OTHER -> [kind |-> "raise", cred |-> "", exc |-> "FileNotFoundError"]
    ELSE NoParams

\* ------------------------------------------------ the profile document

\* A key the JSON document does not hold.
Absent == <<"<absent>">>

RAG_TOOL == "snowflake_rag"

\* The document of --config, every recognised key present or Absent. voice_options
\* and greeting are objects: has_voice_options / has_greeting say whether the key
\* is there, and the fields below them are the object's keys. tools is Absent, null
\* (None) or a list of identifiers.
Docs ==
    {d \in [name : {Absent, <<>>, <<"aria">>},
            has_voice_options : BOOLEAN,
            speed_alpha : {Absent, <<"0.9">>},
            reduce_latency : {Absent, <<"false">>},
            max_tokens : {Absent, <<"1200">>},
            personality_prompt : {Absent, <<"You are a pirate.">>},
            has_greeting : BOOLEAN,
            intro_phrase : {Absent, <<"Ahoy!">>},
            tools : {Absent, None, <<>>, <<RAG_TOOL>>, <<"web_search">>,
                     <<"web_search", RAG_TOOL>>}] :
        /\ ~d.has_voice_options =>
              d.speed_alpha = Absent /\ d.reduce_latency = Absent /\ d.max_tokens = Absent
        /\ ~d.has_greeting => d.intro_phrase = Absent}

\* LOADED_CONFIG = None, written as a document so that it compares with one.
NoConfig ==
    [loaded |-> FALSE, name |-> Absent, has_voice_options |-> FALSE,
     speed_alpha |-> Absent, reduce_latency |-> Absent, max_tokens |-> Absent,
     personality_prompt |-> Absent, has_greeting |-> FALSE, intro_phrase |-> Absent,
     tools |-> Absent]

\* json.load of the document d.
Loaded(d) ==
    [loaded |-> TRUE, name |-> d.name, has_voice_options |-> d.has_voice_options,
     speed_alpha |-> d.speed_alpha, reduce_latency |-> d.reduce_latency,
     max_tokens |-> d.max_tokens, personality_prompt |-> d.personality_prompt,
     has_greeting |-> d.has_greeting, intro_phrase |-> d.intro_phrase,
     tools |-> d.tools]

\* The truth value of LOADED_CONFIG: None and the empty dict are falsy.
ConfigTruthy(c) ==
    /\ c.loaded
    /\ \/ c.name # Absent
       \/ c.has_voice_options
       \/ c.personality_prompt # Absent
       \/ c.has_greeting
       \/ c.tools # Absent

\* dict.get(key, default) of a key whose value is v.
Get(v, default) == IF v = Absent THEN default ELSE v

\* The built-in table of agent_configs, which the sources read and do not hold:
\* the profile of the one voice has its own texts and TTS options, or the same as
\* the defaults of a document, and a sentence tokenizer that is absent, a
\* SentenceTokenizer, or some other object.
BuiltinProfiles ==
    [texts : {"own", "defaults"}, sentence_tokenizer : {"absent", "valid", "invalid"}]

VOICE_CONFIGS(b) ==
    IF b.texts = "own"
    THEN [speed_alpha |-> <<"1.1">>, reduce_latency |-> <<"false">>,
          max_tokens |-> <<"2000">>, llm_prompt |-> <<"You are Celeste.">>,
          intro_phrase |-> <<"Hey, I am Celeste.">>]
    ELSE [speed_alpha |-> <<"1.5">>, reduce_latency |-> <<"true">>,
          max_tokens |-> <<"3400">>, llm_prompt |-> <<"You are a helpful assistant.">>,
          intro_phrase |-> <<"Hello!">>]

VOICE == <<"celeste">>

NotResolved ==
    [voice_name |-> <<>>, speed_alpha |-> <<>>, reduce_latency |-> <<>>,
     max_tokens |-> <<>>, llm_prompt |-> <<>>, intro_phrase |-> <<>>,
     stream_adapter |-> FALSE]

\* entrypoint, lines 86-121: the configuration of the session.
ResolveProfile(c, b) ==
    IF ConfigTruthy(c)
    THEN [voice_name |-> Get(c.name, <<"custom">>),
          speed_alpha |-> Get(c.speed_alpha, <<"1.5">>),
          reduce_latency |-> Get(c.reduce_latency, <<"true">>),
          max_tokens |-> Get(c.max_tokens, <<"3400">>),
          llm_prompt |-> Get(c.personality_prompt, <<"You are a helpful assistant.">>),
          intro_phrase |-> Get(c.intro_phrase, <<"Hello!">>),
          stream_adapter |-> FALSE]
    ELSE [voice_name |-> VOICE,
          speed_alpha |-> VOICE_CONFIGS(b).speed_alpha,
          reduce_latency |-> VOICE_CONFIGS(b).reduce_latency,
          max_tokens |-> VOICE_CONFIGS(b).max_tokens,
          llm_prompt |-> VOICE_CONFIGS(b).llm_prompt,
          intro_phrase |-> VOICE_CONFIGS(b).intro_phrase,
          stream_adapter |-> b.sentence_tokenizer = "valid"]

\* lines 112-117: the TypeError of a sentence tokenizer of the wrong type.
ResolveRaises(c, b) == ~ConfigTruthy(c) /\ b.sentence_tokenizer = "invalid"

\* line 164: tools_list = (LOADED_CONFIG or {}).get("tools") or []
ToolsList(c) ==
    LET t == IF ConfigTruthy(c) THEN c.tools ELSE Absent
    IN  IF t = Absent \/ t = None THEN <<>> ELSE t

\* HasRagTool with a fault: only the first tool is looked at.
HasRagToolFirst(tools_list) == tools_list # <<>> /\ tools_list[1] = RAG_TOOL

\* line 165: "snowflake_rag" in tools_list
HasRagTool(tools_list) == \E k \in 1..Len(tools_list) : tools_list[k] = RAG_TOOL

\* line 140: agent_name = (LOADED_CONFIG or {}).get("name", "agent") or "agent"
AgentName(c) ==
    Or(IF ConfigTruthy(c) THEN Get(c.name, <<"agent">>) ELSE <<"agent">>, <<"agent">>)

\* --------------------------------------- _parse_config_and_run, entrypoint

procVars == <<userdata, sessions, made>>
sessionVars ==
    <<builtin, LOADED_CONFIG, epc, resolved, observers, agent, spoken, log, procVars>>
warehouseVars == <<tasks, rows, connects, rag, calls, events>>
ragVars == <<rag, calls>>

\* _parse_config_and_run without --config, or with --config as the last argument.
RunWithoutConfig ==
    /\ epc = "main"
    /\ epc' = "process"
    /\ UNCHANGED <<env, builtin, LOADED_CONFIG, resolved, observers, agent, spoken, log>>
    /\ UNCHANGED <<procVars, warehouseVars>>

\* _parse_config_and_run with --config <path>, the file holding the document d.
RunWithConfig(d) ==
    /\ epc = "main"
    /\ LOADED_CONFIG' = Loaded(d)
    /\ epc' = "process"
    /\ UNCHANGED <<env, builtin, resolved, observers, agent, spoken, log>>
    /\ UNCHANGED <<procVars, warehouseVars>>

\* prewarm, lines 55-56: the worker process loads one VAD and keeps it.
Prewarm ==
    /\ epc = "process"
    /\ userdata' = made + 1
    /\ made' = made + 1
    /\ epc' = "worker"
    /\ UNCHANGED <<env, builtin, LOADED_CONFIG, resolved, observers, agent, spoken, log>>
    /\ UNCHANGED <<sessions, warehouseVars>>

\* line 80: await ctx.connect(...)
CtxConnect ==
    /\ epc = "worker"
    /\ epc' = "connected"
    /\ log' = Append(log, "ctx.connect")
    /\ UNCHANGED <<env, builtin, LOADED_CONFIG, resolved, observers, agent, spoken>>
    /\ UNCHANGED <<procVars, warehouseVars>>

\* line 83: participant = await ctx.wait_for_participant()
WaitForParticipant ==
    /\ epc = "connected"
    /\ epc' = "joined"
    /\ log' = Append(log, "wait_for_participant")
    /\ UNCHANGED <<env, builtin, LOADED_CONFIG, resolved, observers, agent, spoken>>
    /\ UNCHANGED <<procVars, warehouseVars>>

\* lines 86-121
ResolveConfig ==
    /\ epc = "joined"
    /\ IF ResolveRaises(LOADED_CONFIG, builtin)
       THEN epc' = "failed" /\ UNCHANGED resolved
       ELSE epc' = "resolved" /\ resolved' = ResolveProfile(LOADED_CONFIG, builtin)
    /\ log' = Append(log, "resolve")
    /\ UNCHANGED <<env, builtin, LOADED_CONFIG, observers, agent, spoken>>
    /\ UNCHANGED <<procVars, warehouseVars>>

\* NewInstances with a fault: every session is given the one TTS of the module.
NewInstancesOneTts(n) == [tts |-> 0, stt |-> n + 2, llm |-> n + 3, turn_detection |-> n + 4]

\* The instances a session is built of, n instances having been constructed
\* before: rime.TTS(...) of lines 88-96 or 107-111, then openai.STT(), openai.LLM(...)
\* and MultilingualModel() of lines 124-128, each a new object.
NewInstances(n) == [tts |-> n + 1, stt |-> n + 2, llm |-> n + 3, turn_detection |-> n + 4]

\* lines 123-130: session = AgentSession(...), usage_collector. The VAD is the one
\* of the process, line 127.
CreateSession ==
    /\ epc = "resolved"
    /\ epc' = "session"
    /\ sessions' = Append(sessions,
          [stt |-> NewInstances(made).stt, llm |-> NewInstances(made).llm,
           tts |-> NewInstances(made).tts, vad |-> userdata,
           turn_detection |-> NewInstances(made).turn_detection])
    /\ made' = made + 4
    /\ log' = Append(log, "AgentSession")
    /\ UNCHANGED <<env, builtin, LOADED_CONFIG, resolved, observers, agent, spoken>>
    /\ UNCHANGED <<userdata, warehouseVars>>

\* lines 132-135: @session.on("metrics_collected")
RegisterMetricsObserver ==
    /\ epc = "session"
    /\ observers' = observers \cup {"metrics_collected"}
    /\ epc' = "metrics_on"
    /\ log' = Append(log, "on metrics_collected")
    /\ UNCHANGED <<env, builtin, LOADED_CONFIG, resolved, agent, spoken>>
    /\ UNCHANGED <<procVars, warehouseVars>>

\* lines 138-155: @session.on("conversation_item_added")
RegisterItemObserver ==
    /\ epc = "metrics_on"
    /\ observers' = observers \cup {"conversation_item_added"}
    /\ epc' = "items_on"
    /\ log' = Append(log, "on conversation_item_added")
    /\ UNCHANGED <<env, builtin, LOADED_CONFIG, resolved, agent, spoken>>
    /\ UNCHANGED <<procVars, warehouseVars>>

\* lines 161-169: the agent with the retrieval tool, or the plain one.
ChooseAgent ==
    /\ epc = "items_on"
    /\ agent' = IF HasRagTool(ToolsList(LOADED_CONFIG))
                THEN "RimeAssistantWithSnowflakeRAG" ELSE "RimeAssistant"
    /\ epc' = "agent"
    /\ log' = Append(log, "agent")
    /\ UNCHANGED <<env, builtin, LOADED_CONFIG, resolved, observers, spoken>>
    /\ UNCHANGED <<procVars, warehouseVars>>

\* SessionStart with a fault: the session is started as soon as it is constructed.
SessionStartEarly ==
    /\ epc = "session"
    /\ epc' = "started"
    /\ log' = Append(log, "session.start")
    /\ UNCHANGED <<env, builtin, LOADED_CONFIG, resolved, observers, agent, spoken>>
    /\ UNCHANGED <<procVars, warehouseVars>>

\* lines 171-178: await session.start(...)
SessionStart ==
    /\ epc = "agent"
    /\ epc' = "started"
    /\ log' = Append(log, "session.start")
    /\ UNCHANGED <<env, builtin, LOADED_CONFIG, resolved, observers, agent, spoken>>
    /\ UNCHANGED <<procVars, warehouseVars>>

\* line 180: await session.say(intro_phrase)
SayGreeting ==
    /\ epc = "started"
    /\ spoken' = resolved.intro_phrase
    /\ epc' = "greeted"
    /\ log' = Append(log, "session.say")
    /\ UNCHANGED <<env, builtin, LOADED_CONFIG, resolved, observers, agent>>
    /\ UNCHANGED <<procVars, warehouseVars>>

\* The worker process is given its next job: entrypoint runs again, in the same
\* process, with locals of its own.
NextJob ==
    /\ epc \in {"greeted", "failed"}
    /\ Len(sessions) < MaxSessions
    /\ epc' = "worker"
    /\ resolved' = NotResolved
    /\ observers' = {}
    /\ agent' = "none"
    /\ spoken' = None
    /\ log' = <<>>
    /\ UNCHANGED <<env, builtin, LOADED_CONFIG>>
    /\ UNCHANGED <<procVars, warehouseVars>>

\* The environment of a run that only resolves its configuration.
BareEnv ==
    [ACCOUNT |-> None, USER |-> None, PASSWORD |-> None, PRIVATE_KEY_PATH |-> None,
     CHAT_TABLE |-> None, RAG_SQL |-> None, RAG_SYSTEM_INSTRUCTION |-> None]

InitConfig ==
    /\ env = BareEnv
    /\ builtin \in BuiltinProfiles
    /\ LOADED_CONFIG = NoConfig
    /\ epc = "main"
    /\ resolved = NotResolved
    /\ observers = {}
    /\ agent = "none"
    /\ spoken = None
    /\ tasks = <<>>
    /\ rows = <<>>
    /\ connects = 0
    /\ rag = NoCall
    /\ calls = 0
    /\ events = <<>>
    /\ log = <<>>
    /\ userdata = 0
    /\ sessions = <<>>
    /\ made = 0

NextConfig ==
    \/ RunWithoutConfig
    \/ \E d \in Docs : RunWithConfig(d)
    \/ Prewarm
    \/ CtxConnect
    \/ WaitForParticipant
    \/ ResolveConfig
    \/ CreateSession
    \/ RegisterMetricsObserver
    \/ RegisterItemObserver
    \/ ChooseAgent
    \/ SessionStart
    \/ SayGreeting


\* ------------------------------------------------------ Transcript Logger

MAX_MESSAGE_LEN == 65535

\* One character of [a-zA-Z0-9_].
IdentChars == {"t", "T", "0", "_"}

\* MatchesIdentifier with a fault: the pattern without its "$".
MatchesIdentifierPrefix(table) == table # <<>> /\ table[1] \in IdentChars

\* re.match(r"^[a-zA-Z0-9_]+$", table): "$" also matches before a final newline.
MatchesIdentifier(table) ==
    LET body == IF table # <<>> /\ table[Len(table)] = "\n"
                THEN SubSeq(table, 1, Len(table) - 1) ELSE table
    IN  body # <<>> /\ \A k \in 1..Len(body) : body[k] \in IdentChars

\* table = (os.getenv("SNOWFLAKE_CHAT_TABLE") or "").strip()
ChatTable(e) == Strip(Or(e.CHAT_TABLE, <<>>))

\* PassesGuards with a fault: the table name is not matched against the pattern.
PassesGuardsNoPattern(e, message) ==
    /\ Strip(Or(e.CHAT_TABLE, <<>>)) # <<>>
    /\ Truthy(message)
    /\ Strip(message) # <<>>

\* PassesGuards with a fault: a message of whitespace goes on.
PassesGuardsNoStrip(e, message) ==
    /\ Strip(Or(e.CHAT_TABLE, <<>>)) # <<>>
    /\ Truthy(message)
    /\ \A k \in 1..Len(Strip(Or(e.CHAT_TABLE, <<>>))) :
          Strip(Or(e.CHAT_TABLE, <<>>))[k] \in IdentChars

\* The early returns of _write_chat_to_snowflake_sync before it builds the
\* connection parameters: TRUE when the write goes on.
PassesGuards(e, message) ==
    /\ ChatTable(e) # <<>>
    /\ Truthy(message)
    /\ Strip(message) # <<>>
    /\ MatchesIdentifier(ChatTable(e))

\* MessageColumn with a fault: the message is cut before it is trimmed.
MessageColumnCutFirst(message) == Strip(Slice(Or(message, <<>>), MAX_MESSAGE_LEN))

\* The message column of the row: (message or "").strip()[:65535]
MessageColumn(message) == Slice(Strip(Or(message, <<>>)), MAX_MESSAGE_LEN)

UtcNowIso == <<"2024-01-01T00:00:00+00:00">>

Roles == {<<"user">>, <<"assistant">>}
Messages == {None, <<>>, <<" ", "\n">>, <<"m">>, <<" ", "m", " ">>}

SessionId == <<"RM_1">>
ParticipantId == <<"alice">>

\* A write as create_task / run_in_executor has scheduled it.
NewTask(role, message, agent_name) ==
    [role |-> role, message |-> message, agent_name |-> agent_name,
     pc |-> "scheduled", connects |-> 0, inserts |-> 0, committed |-> FALSE,
     conn |-> "none", fault |-> "none", exc |-> ""]

\* ------------------------------------------- the conversation-item observer

\* " ".join(str(c) for c in text if isinstance(c, str)), text a list of fragments
\* [isstr, s]: the fragments that are strings, a space between each two.
\* JoinStr with a fault: the fragments are put together with nothing between them.
RECURSIVE JoinStrNoSpace(_)
JoinStrNoSpace(l) ==
    IF l = <<>> THEN <<>>
    ELSE IF ~Head(l).isstr THEN JoinStrNoSpace(Tail(l))
    ELSE Head(l).s \o JoinStrNoSpace(Tail(l))

RECURSIVE JoinStr(_)
JoinStr(l) ==
    IF l = <<>> THEN <<>>
    ELSE IF ~Head(l).isstr THEN JoinStr(Tail(l))
    ELSE LET rest == SelectSeq(Tail(l), LAMBDA c : c.isstr)
         IN  IF rest = <<>> THEN Head(l).s ELSE Head(l).s \o <<" ">> \o JoinStr(Tail(l))

NoContent == [kind |-> "none", s |-> <<>>, l |-> <<>>]
StrContent(s) == [kind |-> "str", s |-> s, l |-> <<>>]
ListContent(l) == [kind |-> "list", s |-> <<>>, l |-> l]
\* A content that is no None, string or list (a number, say), s what str() makes of it.
OtherContent(s) == [kind |-> "other", s |-> s, l |-> <<>>]
Frag(s) == [isstr |-> TRUE, s |-> s]
NonStrFrag == [isstr |-> FALSE, s |-> <<>>]

\* The truth value of an item's content: None, "" and [] are falsy.
ContentTruthy(c) ==
    \/ c.kind = "str" /\ c.s # <<>>
    \/ c.kind = "list" /\ c.l # <<>>
    \/ c.kind = "other"

\* The items the session hands over. role and text_content are a string or None;
\* message is absent, a dict (with or without a "role") or an object with no get;
\* content is None, a string, a list of fragments or a value of another type.
UserItem ==
    [role |-> <<"user">>, message |-> "absent", text_content |-> <<"m">>,
     content |-> NoContent]
AssistantItem ==
    [role |-> <<"assistant">>, message |-> "absent", text_content |-> None,
     content |-> ListContent(<<Frag(<<"m">>), NonStrFrag, Frag(<<"m">>)>>)]
BlankItem ==
    [role |-> <<"user">>, message |-> "absent", text_content |-> <<>>,
     content |-> StrContent(<<" ", "\n">>)]
\* An item with no role of its own.
NoRoleItem ==
    [role |-> None, message |-> "absent", text_content |-> None,
     content |-> StrContent(<<" ", "m", " ">>)]
\* An item whose message is an object without get.
OddMessageItem ==
    [role |-> None, message |-> "object", text_content |-> <<"m">>,
     content |-> NoContent]
\* An item with a text_content beside its list of fragments.
BothTextsItem ==
    [role |-> <<"assistant">>, message |-> "absent", text_content |-> <<"a", "\n", "b">>,
     content |-> ListContent(<<Frag(<<"a">>), Frag(<<"b">>)>>)]

Items ==
    {UserItem, AssistantItem, BlankItem, NoRoleItem, OddMessageItem, BothTextsItem,
     [role |-> None, message |-> "absent", text_content |-> None, content |-> NoContent],
     [role |-> <<"user">>, message |-> "absent", text_content |-> None,
      content |-> OtherContent(<<"5">>)],
     [role |-> <<"user">>, message |-> "absent", text_content |-> None,
      content |-> StrContent(<<"m", " ", "m">>)],
     [role |-> None, message |-> "dict_assistant", text_content |-> <<"m">>,
      content |-> NoContent],
     [role |-> None, message |-> "dict_none", text_content |-> <<"m">>,
      content |-> NoContent],
     [role |-> <<"assistant">>, message |-> "absent", text_content |-> None,
      content |-> ListContent(<<NonStrFrag>>)],
     [role |-> <<"user">>, message |-> "absent", text_content |-> None,
      content |-> NoContent]}

\* line 146: getattr(item, "role", None) or getattr(item, "message", {}).get("role", "user")
ItemRoleRaises(item) == ~Truthy(item.role) /\ item.message = "object"

\* ItemRole with a fault: an item without a role gets none.
ItemRoleNoDefault(item) ==
    IF Truthy(item.role) THEN item.role
    ELSE IF item.message = "dict_assistant" THEN <<"assistant">> ELSE None

ItemRole(item) ==
    IF Truthy(item.role) THEN item.role
    ELSE CASE item.message = "dict_assistant" -> <<"assistant">>
           [] item.message = "dict_none" -> None
           [] OTHER -> <<"user">>

\* lines 147-149, then str(text)
ItemText(item) ==
    IF Truthy(item.text_content) THEN item.text_content
    ELSE IF ~ContentTruthy(item.content) THEN <<>>
    ELSE IF item.content.kind = "list" THEN JoinStr(item.content.l)
    ELSE item.content.s

\* line 150: if role and str(text).strip()
Schedules(item) ==
    /\ ~ItemRoleRaises(item)
    /\ Truthy(ItemRole(item))
    /\ Strip(ItemText(item)) # <<>>

\* ObserverCatches with a fault: the handler is for KeyError alone.
ObserverCatchesKeyError(exc) == exc = "KeyError"

\* line 154: except Exception
ObserverCatches(exc) == exc \in Exceptions

\* CreateTask with a fault: the new task goes before the ones scheduled earlier.
CreateTaskFirst(queue, task) == <<task>> \o queue

\* asyncio.create_task: the tasks of the loop start in the order of their creation.
CreateTask(queue, task) == Append(queue, task)

\* _on_conversation_item_added, lines 143-155. The event is recorded with the
\* exception the extraction raised ("" for none) and with what the observer
\* handed to write_chat_to_snowflake, when it did.
ItemAdded(item) ==
    /\ epc \in {"started", "greeted"}
    /\ "conversation_item_added" \in observers
    /\ LET exc == IF ItemRoleRaises(item) THEN "AttributeError" ELSE ""
           scheduled == exc = "" /\ Schedules(item)
       IN  /\ epc' = IF exc # "" /\ ~ObserverCatches(exc) THEN "observer_raised" ELSE epc
           /\ tasks' = IF scheduled
                        THEN CreateTask(tasks, NewTask(ItemRole(item), ItemText(item),
                                                       AgentName(LOADED_CONFIG)))
                        ELSE tasks
           /\ events' = Append(events,
                  [item |-> item, exc |-> exc, scheduled |-> scheduled,
                   role |-> IF scheduled THEN ItemRole(item) ELSE None,
                   text |-> IF scheduled THEN ItemText(item) ELSE None])
    /\ UNCHANGED <<env, rows, connects, ragVars>>
    /\ UNCHANGED <<builtin, LOADED_CONFIG, resolved, observers, agent, spoken, log, procVars>>

\* A direct call of write_chat_to_snowflake.
LoggerCall(role, message) ==
    /\ tasks' = CreateTask(tasks, NewTask(role, message, <<"agent">>))
    /\ UNCHANGED <<env, rows, connects>>
    /\ UNCHANGED <<sessionVars, ragVars, events>>

\* loop.run_in_executor(None, ...), line 116 and rime tool line 229: the writes and
\* the retrieval calls run on the threads of the one default executor. A thread
\* is held from the start of the function to its end.
Busy ==
    Cardinality({i \in 1..Len(tasks) : tasks[i].pc \in {"connected", "executed"}})
        + (IF rag.pc \in {"connected", "executed"} THEN 1 ELSE 0)

\* _write_chat_to_snowflake_sync, lines 65-83: the guards, the connection
\* parameters and the connect, once a thread of the executor is free.
WriteBegin(i) ==
    /\ i \in 1..Len(tasks)
    /\ tasks[i].pc = "scheduled"
    /\ Busy < MaxWorkers
    /\ LET t == tasks[i]
           params == GetConnectionParams(env)
       IN  IF ~PassesGuards(env, t.message) THEN
               /\ tasks' = [tasks EXCEPT ![i].pc = "done"]
               /\ UNCHANGED connects
           ELSE IF params.kind = "raise" THEN
               /\ tasks' = [tasks EXCEPT ![i].pc = "raised", ![i].exc = params.exc]
               /\ UNCHANGED connects
           ELSE IF params.kind = "none" THEN
               /\ tasks' = [tasks EXCEPT ![i].pc = "done"]
               /\ UNCHANGED connects
           ELSE
               /\ connects' = connects + 1
               /\ \E ok \in BOOLEAN :
                    tasks' = [tasks EXCEPT
                        ![i].connects = t.connects + 1,
                        ![i].pc = IF ok THEN "connected" ELSE "done",
                        ![i].conn = IF ok THEN "open" ELSE "none",
                        ![i].fault = IF ok THEN "none" ELSE "connect"]
    /\ UNCHANGED <<env, rows>>
    /\ UNCHANGED <<sessionVars, ragVars, events>>

\* WriteFinally with a fault: the connection is not closed.
WriteFinallyLeaks(closed) == "open"

\* lines 99-104: the finally closes the connection; a close that raises is
\* swallowed, and the connection is then in the state the warehouse left it in.
WriteFinally(closed) == IF closed THEN "closed" ELSE "close_failed"

\* lines 84-94 (and, when execute raises, the handler and the finally of 97-104).
WriteExecute(i) ==
    /\ i \in 1..Len(tasks)
    /\ tasks[i].pc = "connected"
    /\ LET t == tasks[i]
           row == [session_id |-> SessionId, participant_id |-> ParticipantId,
                   role |-> t.role, message |-> MessageColumn(t.message),
                   agent_name |-> Or(t.agent_name, <<>>), created_at |-> UtcNowIso]
       IN  \/ /\ rows' = Append(rows, row)
              /\ tasks' = [tasks EXCEPT ![i].pc = "executed", ![i].inserts = t.inserts + 1]
           \/ /\ \E closed \in BOOLEAN :
                    tasks' = [tasks EXCEPT
                        ![i].pc = "done", ![i].fault = "execute",
                        ![i].conn = WriteFinally(closed)]
              /\ UNCHANGED rows
    /\ UNCHANGED <<env, connects>>
    /\ UNCHANGED <<sessionVars, ragVars, events>>

\* WriteCommit with a fault: a write whose commit failed is scheduled again.
WriteCommitRetries(i) ==
    /\ i \in 1..Len(tasks)
    /\ tasks[i].pc = "executed"
    /\ \E committed \in BOOLEAN :
         tasks' = [tasks EXCEPT
             ![i].pc = IF committed THEN "done" ELSE "scheduled",
             ![i].committed = committed,
             ![i].fault = IF committed THEN "none" ELSE "commit",
             ![i].conn = "closed"]
    /\ UNCHANGED <<env, rows, connects>>
    /\ UNCHANGED <<sessionVars, ragVars, events>>

\* lines 95-104: commit, cursor.close, and the finally that closes the connection.
WriteCommit(i) ==
    /\ i \in 1..Len(tasks)
    /\ tasks[i].pc = "executed"
    /\ \E committed \in BOOLEAN, closed \in BOOLEAN :
         tasks' = [tasks EXCEPT
             ![i].pc = "done",
             ![i].committed = committed,
             ![i].fault = IF committed THEN "none" ELSE "commit",
             ![i].conn = WriteFinally(closed)]
    /\ UNCHANGED <<env, rows, connects>>
    /\ UNCHANGED <<sessionVars, ragVars, events>>

vars ==
    <<env, builtin, LOADED_CONFIG, epc, resolved, observers, agent, spoken, tasks, rows,
      connects, rag, calls, events, log, userdata, sessions, made>>

SpecConfig == InitConfig /\ [][NextConfig]_vars

\* The steps of entrypoint, lines 80-180, in the order of its statements.
EntrypointSteps ==
    <<"ctx.connect", "wait_for_participant", "resolve", "AgentSession",
      "on metrics_collected", "on conversation_item_added", "agent", "session.start",
      "session.say">>

\* A session that runs: entrypoint has gone through session.say.
SessionRuns(c, b) ==
    /\ builtin = b
    /\ LOADED_CONFIG = c
    /\ epc = "greeted"
    /\ resolved = ResolveProfile(c, b)
    /\ observers = {"metrics_collected", "conversation_item_added"}
    /\ agent = IF HasRagTool(ToolsList(c))
               THEN "RimeAssistantWithSnowflakeRAG" ELSE "RimeAssistant"
    /\ spoken = ResolveProfile(c, b).intro_phrase
    /\ log = EntrypointSteps
    /\ userdata = 1
    /\ sessions = <<[stt |-> NewInstances(1).stt, llm |-> NewInstances(1).llm,
                     tts |-> NewInstances(1).tts, vad |-> 1,
                     turn_detection |-> NewInstances(1).turn_detection]>>
    /\ made = 5

PlainBuiltin == [texts |-> "own", sentence_tokenizer |-> "absent"]

InitLogger ==
    /\ env \in LoggerEnvs
    /\ SessionRuns(NoConfig, PlainBuiltin)
    /\ tasks = <<>>
    /\ rows = <<>>
    /\ connects = 0
    /\ rag = NoCall
    /\ calls = 0
    /\ events = <<>>

NextLogger ==
    \/ \E role \in Roles, message \in Messages :
          Len(tasks) < MaxWrites /\ LoggerCall(role, message)
    \/ \E i \in 1..MaxWrites : WriteBegin(i)
    \/ \E i \in 1..MaxWrites : WriteExecute(i)
    \/ \E i \in 1..MaxWrites : WriteCommit(i)

SpecLogger == InitLogger /\ [][NextLogger]_vars

\* ---------------------------------------------------------- json.loads

JNull == [t |-> "null"]
JBool(b) == [t |-> "bool", b |-> b]
JNum(n) == [t |-> "num", n |-> n]
JStr(s) == [t |-> "str", s |-> s]
JArr(a) == [t |-> "arr", a |-> a]
JObj(o) == [t |-> "obj", o |-> o]

\* The truth value of a decoded JSON value.
PyTruthy(v) ==
    CASE v.t = "null" -> FALSE
      [] v.t = "bool" -> v.b
      [] v.t = "num" -> v.n # 0
      [] v.t = "str" -> v.s # <<>>
      [] v.t = "arr" -> v.a # <<>>
      [] v.t = "obj" -> DOMAIN v.o # {}

ParisDoc == "{\"choices\":[{\"messages\":\" Paris is the capital. \"}]}"
FortyTwoDoc == "{\"choices\":[{\"messages\":\"42\"},{\"messages\":\"43\"}],\"usage\":{}}"

\* The JSON objects the warehouse answers with, each text one element of a string.
JsonTexts ==
    {ParisDoc, FortyTwoDoc, "{}", "{\"choices\":null}", "{\"choices\":[]}",
     "{\"choices\":5}", "{\"choices\":true}", "{\"choices\":\"abc\"}",
     "{\"choices\":{\"a\":1}}", "{\"choices\":[5]}", "{\"choices\":[{\"message\":\"x\"}]}",
     "{\"choices\":[{\"messages\":null}]}", "{\"choices\":[{\"messages\":\"\"}]}",
     "{\"choices\":[{\"messages\":7}]}", "{\"choices\":[{\"messages\":[\"a\"]}]}"}

\* What json.loads makes of each of them.
JsonValue(text) ==
    CASE text = ParisDoc ->
            JObj([choices |->
                JArr(<<JObj([messages |-> JStr(<<" ", "Paris is the capital.", " ">>)])>>)])
      [] text = FortyTwoDoc ->
            JObj([choices |-> JArr(<<JObj([messages |-> JStr(<<"4", "2">>)]),
                                     JObj([messages |-> JStr(<<"4", "3">>)])>>),
                  usage |-> JObj(<<>>)])
      [] text = "{}" -> JObj(<<>>)
      [] text = "{\"choices\":null}" -> JObj([choices |-> JNull])
      [] text = "{\"choices\":[]}" -> JObj([choices |-> JArr(<<>>)])
      [] text = "{\"choices\":5}" -> JObj([choices |-> JNum(5)])
      [] text = "{\"choices\":true}" -> JObj([choices |-> JBool(TRUE)])
      [] text = "{\"choices\":\"abc\"}" -> JObj([choices |-> JStr(<<"a", "b", "c">>)])
      [] text = "{\"choices\":{\"a\":1}}" -> JObj([choices |-> JObj([a |-> JNum(1)])])
      [] text = "{\"choices\":[5]}" -> JObj([choices |-> JArr(<<JNum(5)>>)])
      [] text = "{\"choices\":[{\"message\":\"x\"}]}" ->
            JObj([choices |-> JArr(<<JObj([message |-> JStr(<<"x">>)])>>)])
      [] text = "{\"choices\":[{\"messages\":null}]}" ->
            JObj([choices |-> JArr(<<JObj([messages |-> JNull])>>)])
      [] text = "{\"choices\":[{\"messages\":\"\"}]}" ->
            JObj([choices |-> JArr(<<JObj([messages |-> JStr(<<>>)])>>)])
      [] text = "{\"choices\":[{\"messages\":7}]}" ->
            JObj([choices |-> JArr(<<JObj([messages |-> JNum(7)])>>)])
      [] text = "{\"choices\":[{\"messages\":[\"a\"]}]}" ->
            JObj([choices |-> JArr(<<JObj([messages |-> JArr(<<JStr(<<"a">>)>>)])>>)])

\* json.loads(s) decodes: s is one of the objects above, whitespace around it or not.
JsonDecodes(s) == Len(Strip(s)) = 1 /\ Strip(s)[1] \in JsonTexts

JsonLoads(s) == JsonValue(Strip(s)[1])

\* out_str.startswith("{")
StartsWithBrace(s) == s # <<>> /\ (s[1] = "{" \/ s[1] \in JsonTexts)

\* ------------------------------------------------- the retrieval tool

ERR_PREFIX == "I couldn't get an answer from the knowledge base: "
NOT_CONFIGURED == <<"Snowflake is not configured (set SNOWFLAKE_ACCOUNT and SNOWFLAKE_USER).">>
NO_CREDENTIALS ==
    <<"Snowflake credentials missing (set SNOWFLAKE_PASSWORD or SNOWFLAKE_PRIVATE_KEY_PATH).">>
NO_RESPONSE == <<"No response from Snowflake.">>
EMPTY_RESPONSE == <<"Empty response from Snowflake.">>

\* What a block of code ends with: a returned string or a raised exception.
Returns(text) == [kind |-> "ret", text |-> text, exc |-> ""]
Raises(exc) == [kind |-> "exc", text |-> <<>>, exc |-> exc]

\* RagHandlerCatches with a fault: except snowflake.connector.Error
RagHandlerCatchesDbOnly(exc) ==
    exc \in {"DatabaseError", "ProgrammingError", "OperationalError"}

\* line 197: except Exception
RagHandlerCatches(exc) == exc \in Exceptions

\* line 199: f"I couldn't get an answer from the knowledge base: {e!s}."
ErrorString(exc) == <<ERR_PREFIX, exc, ".">>

\* lines 197-199 around the body of _run_snowflake_sync.
RagGuarded(outcome) ==
    IF outcome.kind = "exc" /\ RagHandlerCatches(outcome.exc)
    THEN Returns(ErrorString(outcome.exc))
    ELSE outcome

\* line 194: except (json.JSONDecodeError, KeyError, IndexError)
ParseHandlerCatches(exc) == exc \in {"JSONDecodeError", "KeyError", "IndexError"}

\* FirstOf with a fault: choices[-1]
FirstOfLast(choices) ==
    CASE choices.t = "arr" -> [exc |-> "", v |-> choices.a[Len(choices.a)]]
      [] choices.t = "str" -> [exc |-> "", v |-> JStr(<<choices.s[Len(choices.s)]>>)]
      [] choices.t = "obj" -> [exc |-> "KeyError", v |-> JNull]
      [] OTHER -> [exc |-> "TypeError", v |-> JNull]

\* choices[0]
FirstOf(choices) ==
    CASE choices.t = "arr" -> [exc |-> "", v |-> choices.a[1]]
      [] choices.t = "str" -> [exc |-> "", v |-> JStr(<<choices.s[1]>>)]
      [] choices.t = "obj" -> [exc |-> "KeyError", v |-> JNull]
      [] OTHER -> [exc |-> "TypeError", v |-> JNull]

\* lines 190-193: the try block, given a string that starts with "{".
ExtractMessage(out_str) ==
    IF ~JsonDecodes(out_str) THEN Raises("JSONDecodeError")
    ELSE LET data == JsonLoads(out_str)
             got == IF "choices" \in DOMAIN data.o THEN data.o.choices ELSE JNull
             choices == IF PyTruthy(got) THEN got ELSE JArr(<<>>)
         IN  IF ~PyTruthy(choices) THEN [kind |-> "fall", text |-> <<>>, exc |-> ""]
             ELSE IF FirstOf(choices).exc # "" THEN Raises(FirstOf(choices).exc)
             ELSE LET first == FirstOf(choices).v
                  IN  IF first.t = "obj" /\ "messages" \in DOMAIN first.o
                      THEN LET m == IF PyTruthy(first.o.messages)
                                    THEN first.o.messages ELSE JStr(<<>>)
                           IN  IF m.t = "str" THEN Returns(Strip(m.s))
                               ELSE Raises("AttributeError")
                      ELSE [kind |-> "fall", text |-> <<>>, exc |-> ""]

\* lines 181-196: the string made of the fetched row. row is "norow", "null" or
\* "value", and column the first column of a "value" row.
ParseResponse(row, column) ==
    IF row = "norow" THEN Returns(NO_RESPONSE)
    ELSE IF row = "null" THEN Returns(EMPTY_RESPONSE)
    ELSE LET out_str == Strip(column)
         IN  IF ~StartsWithBrace(out_str) THEN Returns(out_str)
             ELSE LET r == ExtractMessage(out_str)
                  IN  IF r.kind = "ret" THEN r
                      ELSE IF r.kind = "exc" /\ ~ParseHandlerCatches(r.exc) THEN r
                      ELSE Returns(out_str)

\* The first column of the row the warehouse answers with.
Columns ==
    {<<"4", "2">>, <<" ", "4", "2", "\n">>, <<>>, <<" ">>, <<"{", "4">>,
     <<" ", ParisDoc, "\n">>}
        \cup {<<t>> : t \in JsonTexts}

Questions == {<<"q">>}

RagEnvs ==
    [ACCOUNT : Accounts, USER : Users, PASSWORD : Passwords,
     PRIVATE_KEY_PATH : KeyPaths, CHAT_TABLE : {None},
     RAG_SQL : {None, <<"CALL rag(?)">>},
     RAG_SYSTEM_INSTRUCTION : {None, <<"Be brief.">>}]

\* The end of _run_snowflake_sync with the outcome o: the call has returned, or
\* an exception has left it.
RagEnd(r, o) ==
    IF RagGuarded(o).kind = "ret"
    THEN [r EXCEPT !.pc = "returned", !.ret = RagGuarded(o).text]
    ELSE [r EXCEPT !.pc = "raised", !.exc = RagGuarded(o).exc]

\* snowflake_rag_tool -> get_snowflake_rag_response, lines 225-232: the defaults
\* from the environment, and the call handed to the executor.
ToolCall(question) ==
    /\ epc \in {"started", "greeted"}
    /\ agent = "RimeAssistantWithSnowflakeRAG"
    /\ rag.pc = "idle"
    /\ calls < MaxCalls
    /\ calls' = calls + 1
    /\ rag' = [NoCall EXCEPT
                !.pc = "scheduled",
                !.question = question,
                !.statement = IF Truthy(env.RAG_SQL) THEN "custom_sql" ELSE "cortex_complete",
                !.prompt = IF Truthy(env.RAG_SQL) THEN <<>>
                           ELSE IF Truthy(env.RAG_SYSTEM_INSTRUCTION)
                                THEN <<"system", "user">> ELSE <<"user">>]
    /\ UNCHANGED <<env, tasks, rows, connects>>
    /\ UNCHANGED <<sessionVars, events>>

\* _run_snowflake_sync, lines 124-160: the configuration, the credential, the connect.
RagBegin ==
    /\ rag.pc = "scheduled"
    /\ Busy < MaxWorkers
    /\ IF ~Truthy(env.ACCOUNT) \/ ~Truthy(env.USER) THEN
           /\ rag' = RagEnd(rag, Returns(NOT_CONFIGURED))
           /\ UNCHANGED connects
       ELSE IF ~Truthy(env.PASSWORD) /\ ~Truthy(env.PRIVATE_KEY_PATH) THEN
           /\ rag' = RagEnd(rag, Returns(NO_CREDENTIALS))
           /\ UNCHANGED connects
       ELSE IF ~Truthy(env.PASSWORD) /\ KeyFileState(env.PRIVATE_KEY_PATH) # "valid" THEN
           /\ rag' = RagEnd([rag EXCEPT !.fault = "credential"],
                        Raises(IF KeyFileState(env.PRIVATE_KEY_PATH) = "malformed"
                               THEN "ValueError" ELSE "FileNotFoundError"))
           /\ UNCHANGED connects
       ELSE
           /\ connects' = connects + 1
           /\ \/ rag' = [rag EXCEPT !.pc = "connected", !.conn = "open",
                                    !.connects = rag.connects + 1]
              \/ rag' = RagEnd([rag EXCEPT !.fault = "connect",
                                           !.connects = rag.connects + 1],
                               Raises("DatabaseError"))
    /\ UNCHANGED <<env, tasks, rows, calls>>
    /\ UNCHANGED <<sessionVars, events>>

\* lines 200-205: the finally closes the connection; a close that raises is
\* swallowed, and the connection is then in the state the warehouse left it in.
RagFinally(closed) == IF closed THEN "closed" ELSE "close_failed"

\* lines 161-175: the cursor and the query; when execute raises, the handler and
\* the finally that closes the connection.
RagExecute ==
    /\ rag.pc = "connected"
    /\ \/ rag' = [rag EXCEPT !.pc = "executed"]
       \/ \E closed \in BOOLEAN :
            rag' = RagEnd([rag EXCEPT !.fault = "query",
                                      !.conn = RagFinally(closed)],
                          Raises("ProgrammingError"))
    /\ UNCHANGED <<env, tasks, rows, connects, calls>>
    /\ UNCHANGED <<sessionVars, events>>

\* lines 177-205: fetchone, the two closes, and the string made of the row.
RagFetch ==
    /\ rag.pc = "executed"
    /\ \/ \E closed \in BOOLEAN :
            rag' = RagEnd([rag EXCEPT !.fault = "fetch",
                                      !.conn = RagFinally(closed)],
                          Raises("ProgrammingError"))
       \/ \E closed \in BOOLEAN :
            rag' = RagEnd([rag EXCEPT !.fault = "close",
                                      !.conn = RagFinally(closed)],
                          Raises("OperationalError"))
       \/ \E row \in {"norow", "null"} :
            rag' = RagEnd([rag EXCEPT !.row = row, !.conn = "closed"],
                          ParseResponse(row, <<>>))
       \/ \E column \in Columns :
            rag' = RagEnd([rag EXCEPT !.row = "value", !.column = column,
                                      !.conn = "closed"],
                          ParseResponse("value", column))
    /\ UNCHANGED <<env, tasks, rows, connects, calls>>
    /\ UNCHANGED <<sessionVars, events>>

\* line 76: the await of the tool ends and the model turn goes on with the string.
ToolReturn ==
    /\ rag.pc = "returned"
    /\ rag' = NoCall
    /\ UNCHANGED <<env, tasks, rows, connects, calls>>
    /\ UNCHANGED <<sessionVars, events>>

RagConfig ==
    [NoConfig EXCEPT !.loaded = TRUE, !.tools = <<RAG_TOOL>>]

InitRag ==
    /\ env \in RagEnvs
    /\ SessionRuns(RagConfig, PlainBuiltin)
    /\ tasks = <<>>
    /\ rows = <<>>
    /\ connects = 0
    /\ rag = NoCall
    /\ calls = 0
    /\ events = <<>>

NextRag ==
    \/ \E question \in Questions : ToolCall(question)
    \/ RagBegin
    \/ RagExecute
    \/ RagFetch
    \/ ToolReturn

SpecRag == InitRag /\ [][NextRag]_vars

\* The environments of a run that logs and retrieves: every state of the
\* connection identity and of the credential, the chat table configured.
WarehouseEnvs ==
    [ACCOUNT : Accounts, USER : Users, PASSWORD : Passwords,
     PRIVATE_KEY_PATH : {None, <<"key.pem">>, <<"bad.pem">>}, CHAT_TABLE : {<<"t">>},
     RAG_SQL : {None}, RAG_SYSTEM_INSTRUCTION : {None}]

InitWarehouse ==
    /\ env \in WarehouseEnvs
    /\ SessionRuns(RagConfig, PlainBuiltin)
    /\ tasks = <<>>
    /\ rows = <<>>
    /\ connects = 0
    /\ rag = NoCall
    /\ calls = 0
    /\ events = <<>>

NextWarehouse == NextLogger \/ NextRag

SpecWarehouse == InitWarehouse /\ [][NextWarehouse]_vars

\* ------------------------------------- a session and its transcript writes

\* The environments of a session that logs: the chat table configured, the
\* connection identity set, the password set or not.
SessionEnvs ==
    [ACCOUNT : {<<"a">>}, USER : {<<"u">>}, PASSWORD : Passwords,
     PRIVATE_KEY_PATH : {None}, CHAT_TABLE : {<<"t">>}, RAG_SQL : {None},
     RAG_SYSTEM_INSTRUCTION : {None}]

InitSession ==
    /\ env \in SessionEnvs
    /\ SessionRuns(NoConfig, PlainBuiltin)
    /\ tasks = <<>>
    /\ rows = <<>>
    /\ connects = 0
    /\ rag = NoCall
    /\ calls = 0
    /\ events = <<>>

\* The session hands over its items as they are finalized; the writes they
\* schedule run beside it.
NextSession ==
    \/ \E item \in Items : Len(events) < MaxItems /\ ItemAdded(item)
    \/ \E i \in 1..MaxItems : WriteBegin(i)
    \/ \E i \in 1..MaxItems : WriteExecute(i)
    \/ \E i \in 1..MaxItems : WriteCommit(i)

SpecSession == InitSession /\ [][NextSession]_vars

\* ------------------------------------- a worker process and its sessions

\* The items of a session that also retrieves.
TurnItems == {UserItem, AssistantItem}


\* The documents of a process that runs several jobs: with and without the
\* retrieval tool.
ProcessDocs ==
    {d \in Docs :
        /\ d.name = <<"aria">> /\ ~d.has_voice_options /\ ~d.has_greeting
        /\ d.personality_prompt = Absent
        /\ d.tools \in {Absent, <<RAG_TOOL>>}}

\* The process runs entrypoint job after job; a started session hands over its
\* items, whose writes run beside it, and calls its retrieval tool.
NextProcess ==
    \/ RunWithoutConfig
    \/ \E d \in ProcessDocs : RunWithConfig(d)
    \/ Prewarm
    \/ CtxConnect
    \/ WaitForParticipant
    \/ ResolveConfig
    \/ CreateSession
    \/ RegisterMetricsObserver
    \/ RegisterItemObserver
    \/ ChooseAgent
    \/ SessionStart
    \/ SayGreeting
    \/ NextJob
    \/ \E item \in TurnItems : Len(events) < MaxItems /\ ItemAdded(item)
    \/ \E i \in 1..MaxItems : WriteBegin(i)
    \/ \E question \in Questions : ToolCall(question)
    \/ RagBegin
    \/ ToolReturn

SpecProcess == InitConfig /\ [][NextProcess]_vars

\* ------------------------------------------- writes of long messages

\* n times the character "m".
Run(n) == [k \in 1..n |-> "m"]

\* Messages about the limit of the message column: of the limit's length with and
\* without whitespace around, and one character longer; and a short one.
LongMessages ==
    {Run(MAX_MESSAGE_LEN),
     <<" ">> \o Run(MAX_MESSAGE_LEN) \o <<"\n">>,
     Run(MAX_MESSAGE_LEN) \o <<"x">>,
     <<" ">> \o Run(MAX_MESSAGE_LEN) \o <<"x", " ">>,
     <<" ", "m", " ">>}

\* The environments of such a run: the chat table configured, every state of the
\* connection identity and of the password.
LongWriteEnvs ==
    [ACCOUNT : Accounts, USER : Users, PASSWORD : Passwords,
     PRIVATE_KEY_PATH : {None}, CHAT_TABLE : {<<"t">>}, RAG_SQL : {None},
     RAG_SYSTEM_INSTRUCTION : {None}]

InitLongWrites ==
    /\ env \in LongWriteEnvs
    /\ SessionRuns(NoConfig, PlainBuiltin)
    /\ tasks = <<>>
    /\ rows = <<>>
    /\ connects = 0
    /\ rag = NoCall
    /\ calls = 0
    /\ events = <<>>

NextLongWrites ==
    \/ \E message \in LongMessages :
          Len(tasks) < MaxLongWrites /\ LoggerCall(<<"user">>, message)
    \/ \E i \in 1..MaxLongWrites : WriteBegin(i)
    \/ \E i \in 1..MaxLongWrites : WriteExecute(i)
    \/ \E i \in 1..MaxLongWrites : WriteCommit(i)

SpecLongWrites == InitLongWrites /\ [][NextLongWrites]_vars

\* ------------------- a session, its transcript writes and its retrieval tool

InitTurn ==
    /\ env \in SessionEnvs
    /\ SessionRuns(RagConfig, PlainBuiltin)
    /\ tasks = <<>>
    /\ rows = <<>>
    /\ connects = 0
    /\ rag = NoCall
    /\ calls = 0
    /\ events = <<>>

NextTurn ==
    \/ \E item \in TurnItems : Len(events) < MaxItems /\ ItemAdded(item)
    \/ \E i \in 1..MaxItems : WriteBegin(i)
    \/ \E i \in 1..MaxItems : WriteExecute(i)
    \/ \E i \in 1..MaxItems : WriteCommit(i)
    \/ NextRag

SpecTurn == InitTurn /\ [][NextTurn]_vars

\* ------------------------------------------------------------- the claims

\* What the claims say of an environment and of a message, in their own words.
IdentityMissing(e) == e.ACCOUNT \in {None, <<>>} \/ e.USER \in {None, <<>>}

CredentialLoads(e) ==
    \/ e.PASSWORD \notin {None, <<>>}
    \/ e.PRIVATE_KEY_PATH = <<"key.pem">>

IsIdentifier(name) == name # <<>> /\ \A k \in 1..Len(name) : name[k] \in IdentChars

TableConfigured(e) == e.CHAT_TABLE \notin {None, <<>>}

TrimmedTable(e) == IF e.CHAT_TABLE = None THEN <<>> ELSE Strip(e.CHAT_TABLE)

NonBlank(message) ==
    message # None /\ \E k \in 1..Len(message) : message[k] \notin WhiteSpace

Finished(t) == t.pc \in {"done", "raised"}

\* C1: a retrieval tool call never ends with an exception: from every step it can
\* go on, it ends returning a string, and a call in which the credential, the
\* connect, the query, the fetch or the close failed returns a string that begins
\* "I couldn't get an answer from the knowledge base:".
C1_ToolCallNeverRaises ==
    /\ rag.pc # "raised"
    /\ rag.pc \in {"scheduled", "connected", "executed"} =>
          ENABLED (RagBegin \/ RagExecute \/ RagFetch)
    /\ rag.pc = "returned" /\ rag.fault # "none" =>
          Len(rag.ret) = 3 /\ rag.ret[1] = ERR_PREFIX

C1_Witness ==
    /\ rag.pc = "returned"
    /\ rag.fault = "credential"
    /\ rag.ret = <<ERR_PREFIX, "FileNotFoundError", ".">>

\* C2: no Transcript Logger write ends with an exception, whatever the environment
\* and whatever fails.
C2_WriteNeverRaises == \A i \in 1..Len(tasks) : tasks[i].pc # "raised"

\* C3, as stated: a finished write has inserted exactly one row if and only if a
\* table name is configured and the message is non-blank, and no row otherwise.
C3_Original ==
    \A i \in 1..Len(tasks) :
        Finished(tasks[i]) =>
            tasks[i].inserts = (IF TableConfigured(env) /\ NonBlank(tasks[i].message)
                                THEN 1 ELSE 0)

\* C3, amended: a finished write has executed exactly one INSERT, and committed
\* it, if and only if the trimmed table name is an identifier, the message is
\* non-blank, the connection identity and a loadable credential are configured and
\* the connect, the insert and the commit succeeded; otherwise it has committed no
\* row, and it never executes more than one INSERT.
C3_OneRowIffWritable ==
    \A i \in 1..Len(tasks) :
        LET t == tasks[i]
            writable == /\ IsIdentifier(TrimmedTable(env))
                        /\ NonBlank(t.message)
                        /\ ~IdentityMissing(env)
                        /\ CredentialLoads(env)
        IN  /\ t.inserts <= 1
            /\ t.committed => t.inserts = 1
            /\ Finished(t) =>
                  /\ (t.inserts = 1 /\ t.committed) <=> (writable /\ t.fault = "none")
                  /\ t.inserts = 1 <=> (writable /\ t.fault \in {"none", "commit"})
            /\ Len(rows) <= Len(tasks)

C3_Witness ==
    \E i \in 1..Len(tasks) :
        /\ tasks[i].pc = "done"
        /\ tasks[i].role = <<"assistant">>
        /\ tasks[i].inserts = 1
        /\ tasks[i].committed
        /\ rows = <<[session_id |-> SessionId, participant_id |-> ParticipantId,
                     role |-> <<"assistant">>, message |-> <<"m">>,
                     agent_name |-> <<"agent">>, created_at |-> UtcNowIso]>>

\* C4, as stated: with a table name that is unset, empty or holds any character
\* that is no letter, digit or underscore, no write connects or inserts.
C4_Original ==
    ~(env.CHAT_TABLE # None /\ IsIdentifier(env.CHAT_TABLE)) =>
        /\ connects = 0
        /\ rows = <<>>

\* C4, amended: with a table name that, once the whitespace around it is
\* trimmed, is empty or holds any character that is no letter, digit or
\* underscore (or with none set), no write connects or inserts.
C4_NoConnectUnlessIdentifier ==
    ~IsIdentifier(TrimmedTable(env)) =>
        /\ connects = 0
        /\ rows = <<>>
        /\ \A i \in 1..Len(tasks) : tasks[i].connects = 0 /\ tasks[i].inserts = 0

C4_Witness ==
    /\ env.CHAT_TABLE = <<"t", ";">>
    /\ ~IdentityMissing(env)
    /\ CredentialLoads(env)
    /\ \E i \in 1..Len(tasks) :
          tasks[i].pc = "done" /\ NonBlank(tasks[i].message) /\ tasks[i].connects = 0

\* C5: the message of every inserted row is non-empty, and a write of an empty or
\* whitespace-only message neither connects nor inserts, whatever the table.
C5_NoBlankMessageLogged ==
    /\ \A k \in 1..Len(rows) : rows[k].message # <<>>
    /\ \A i \in 1..Len(tasks) :
          ~NonBlank(tasks[i].message) =>
              /\ tasks[i].connects = 0
              /\ tasks[i].inserts = 0
              /\ tasks[i].pc \in {"scheduled", "done"}
    /\ (\A i \in 1..Len(tasks) : ~NonBlank(tasks[i].message)) =>
          connects = 0 /\ rows = <<>>

C5_Witness ==
    /\ IsIdentifier(TrimmedTable(env))
    /\ ~IdentityMissing(env)
    /\ CredentialLoads(env)
    /\ \E i \in 1..Len(tasks) :
          tasks[i].pc = "done" /\ tasks[i].message = <<" ", "\n">>
    /\ connects = 0

\* The message text of the first choice of a column that is a JSON object with
\* choices[0].messages a string, and <<"<none>">> for any other column.
FirstChoiceText(column) ==
    IF ~JsonDecodes(column) THEN <<"<none>">>
    ELSE LET data == JsonLoads(column)
         IN  IF /\ "choices" \in DOMAIN data.o
                /\ data.o.choices.t = "arr"
                /\ data.o.choices.a # <<>>
                /\ data.o.choices.a[1].t = "obj"
                /\ "messages" \in DOMAIN data.o.choices.a[1].o
                /\ data.o.choices.a[1].o.messages.t = "str"
             THEN data.o.choices.a[1].o.messages.s
             ELSE <<"<none>">>

JsonShaped(column) == Strip(column) # <<>> /\ StartsWithBrace(Strip(column))

\* C6: a call whose query and fetch succeeded returns the trimmed message of the
\* first choice when the column is a JSON object holding one, the trimmed column
\* when it is not JSON-shaped, "Empty response from Snowflake." for a null
\* column and "No response from Snowflake." for no row.
C6_ResponseMapping ==
    rag.pc = "returned" /\ rag.fault = "none" =>
        /\ rag.row = "norow" => rag.ret = <<"No response from Snowflake.">>
        /\ rag.row = "null" => rag.ret = <<"Empty response from Snowflake.">>
        /\ rag.row = "value" /\ ~JsonShaped(rag.column) => rag.ret = Strip(rag.column)
        /\ rag.row = "value" /\ FirstChoiceText(rag.column) # <<"<none>">> =>
              rag.ret = Strip(FirstChoiceText(rag.column))

C6_Witness ==
    /\ rag.pc = "returned"
    /\ rag.column = <<" ", ParisDoc, "\n">>
    /\ rag.ret = <<"Paris is the capital.">>

\* The first choice's message text cannot be extracted: the column is no JSON, or
\* choices is missing, empty or no list, or the first choice is no object or has
\* no messages, or its messages is a number, a list or an object.
ExtractionFails(column) ==
    \/ ~JsonDecodes(column)
    \/ LET data == JsonLoads(column)
       IN  \/ "choices" \notin DOMAIN data.o
           \/ data.o.choices.t # "arr"
           \/ data.o.choices.a = <<>>
           \/ data.o.choices.a[1].t # "obj"
           \/ "messages" \notin DOMAIN data.o.choices.a[1].o
           \/ data.o.choices.a[1].o.messages.t \in {"num", "arr", "obj"}

\* C7: a call whose query and fetch succeeded and whose column is JSON-shaped, but
\* of which the first choice's message text cannot be extracted, returns the
\* trimmed column.
C7_ParseFailureFallsBack ==
    /\ rag.pc = "returned"
    /\ rag.fault = "none"
    /\ rag.row = "value"
    /\ JsonShaped(rag.column)
    /\ ExtractionFails(rag.column)
    => rag.ret = Strip(rag.column)

\* entrypoint has resolved its configuration.
Started == epc \in {"resolved", "session", "metrics_on", "items_on", "agent", "started",
                    "greeted"}

\* C8: a session started with a document has, for every optional field the
\* document leaves out, the documented default: speed_alpha 1.5, reduce_latency
\* true, max_tokens 3400, greeting "Hello!", prompt "You are a helpful assistant.".
C8_DefaultsForOmittedFields ==
    Started /\ LOADED_CONFIG.loaded =>
        /\ LOADED_CONFIG.speed_alpha = Absent => resolved.speed_alpha = <<"1.5">>
        /\ LOADED_CONFIG.reduce_latency = Absent => resolved.reduce_latency = <<"true">>
        /\ LOADED_CONFIG.max_tokens = Absent => resolved.max_tokens = <<"3400">>
        /\ LOADED_CONFIG.intro_phrase = Absent => resolved.intro_phrase = <<"Hello!">>
        /\ LOADED_CONFIG.personality_prompt = Absent =>
              resolved.llm_prompt = <<"You are a helpful assistant.">>

\* The enabled-tool list of the claims: the document's tools, empty when there is
\* no document, no tools key or a null one.
EnabledTools ==
    IF LOADED_CONFIG.loaded /\ LOADED_CONFIG.tools \notin {Absent, None}
    THEN LOADED_CONFIG.tools ELSE <<>>

\* C9: the agent handed to session.start has the retrieval tool if and only if
\* the enabled-tool list holds "snowflake_rag"; without a document the agent is
\* the plain one.
C9_ToolIffEnabled ==
    epc \in {"agent", "started", "greeted"} =>
        /\ agent = "RimeAssistantWithSnowflakeRAG" <=>
              "snowflake_rag" \in {EnabledTools[k] : k \in 1..Len(EnabledTools)}
        /\ agent \in {"RimeAssistantWithSnowflakeRAG", "RimeAssistant"}
        /\ ~LOADED_CONFIG.loaded => agent = "RimeAssistant"

C9_Witness ==
    /\ epc = "greeted"
    /\ LOADED_CONFIG.tools = <<"web_search", "snowflake_rag">>
    /\ agent = "RimeAssistantWithSnowflakeRAG"

\* C10: with SNOWFLAKE_ACCOUNT or SNOWFLAKE_USER missing, _get_connection_params
\* returns None, no write connects, inserts or raises, and a retrieval tool call
\* does not connect or raise and returns the "not configured" string.
C10_MissingIdentityNotConfigured ==
    IdentityMissing(env) =>
        /\ GetConnectionParams(env) = NoParams
        /\ connects = 0
        /\ rows = <<>>
        /\ \A i \in 1..Len(tasks) :
              /\ tasks[i].connects = 0
              /\ tasks[i].inserts = 0
              /\ tasks[i].pc \in {"scheduled", "done"}
        /\ rag.connects = 0
        /\ rag.pc \in {"idle", "scheduled", "returned"}
        /\ rag.pc = "returned" =>
              rag.ret = <<"Snowflake is not configured (set SNOWFLAKE_ACCOUNT and SNOWFLAKE_USER).">>

C10_Witness ==
    /\ env.ACCOUNT = <<"a">>
    /\ env.USER = None
    /\ env.PRIVATE_KEY_PATH = <<"bad.pem">>
    /\ env.PASSWORD = None
    /\ \E i \in 1..Len(tasks) : tasks[i].pc = "done" /\ NonBlank(tasks[i].message)
    /\ rag.pc = "returned"
    /\ rag.ret = NOT_CONFIGURED

\* An item has text: its text_content, its content (as str() gives it) or a string
\* fragment of its content holds a character that is no whitespace.
HasText(item) ==
    \/ NonBlank(item.text_content)
    \/ item.content.kind \in {"str", "other"} /\ NonBlank(item.content.s)
    \/ /\ item.content.kind = "list"
       /\ \E k \in 1..Len(item.content.l) :
            item.content.l[k].isstr /\ NonBlank(item.content.l[k].s)

EventsWithText == {k \in 1..Len(events) : HasText(events[k].item)}

\* C11: a finalized item is persisted at most once: the session's events schedule
\* at most one write each, a write connects at most once and inserts at most one
\* row, a write that has ended (failed or not) takes no further step, and the rows
\* inserted never outnumber the items with non-blank text.
C11_AtMostOnce ==
    /\ Len(tasks) <= Len(events)
    /\ Len(rows) <= Cardinality(EventsWithText)
    /\ \A i \in 1..Len(tasks) :
         /\ tasks[i].connects <= 1
         /\ tasks[i].inserts <= 1
         /\ Finished(tasks[i]) =>
                ~ENABLED (WriteBegin(i) \/ WriteExecute(i) \/ WriteCommit(i))

\* A write whose commit failed has ended beside a blank item, one row inserted.
C11_Witness ==
    /\ Len(events) = 2
    /\ \E k \in 1..2 : events[k].item = BlankItem
    /\ Len(tasks) = 1 /\ tasks[1].pc = "done" /\ tasks[1].fault = "commit"
    /\ Len(rows) = 1

\* A retrieval tool call is over: none was made, or the last one has ended.
CallOver == rag.pc \in {"idle", "returned", "raised"}

\* C12: a warehouse connection lives within the operation that opened it: when a
\* logger write or a retrieval tool call has ended, on the success path and after a
\* failing connect, execute, fetch, commit or parse, it has called close on the
\* connection it opened (none is left open by it), and an operation that holds a
\* connection or has used one has made its own connect, once.
C12_ConnectionWithinOperation ==
    /\ \A i \in 1..Len(tasks) :
         /\ Finished(tasks[i]) => tasks[i].conn # "open"
         /\ tasks[i].connects <= 1
         /\ (tasks[i].conn # "none" \/ tasks[i].inserts > 0) => tasks[i].connects = 1
    /\ CallOver => rag.conn # "open"
    /\ rag.connects <= 1
    /\ (rag.conn # "none" \/ rag.row # "none") => rag.connects = 1

\* A write whose execute failed and a tool call whose fetch failed have both
\* ended, each with its own connection closed.
C12_Witness ==
    /\ Len(tasks) = 1 /\ tasks[1].pc = "done" /\ tasks[1].fault = "execute"
    /\ tasks[1].conn = "closed"
    /\ rag.pc = "returned" /\ rag.fault = "fetch" /\ rag.conn = "closed"
    /\ connects = 2

IsPrefix(p, q) == Len(p) <= Len(q) /\ SubSeq(q, 1, Len(p)) = p

\* The steps the order is claimed of, first to last.
ClaimedOrder ==
    <<"ctx.connect", "wait_for_participant", "resolve", "AgentSession",
      "on metrics_collected", "on conversation_item_added", "session.start",
      "session.say">>

Taken(step) == \E k \in 1..Len(log) : log[k] = step

\* C13: a run of entrypoint takes its steps in this order, each at most once: room
\* connect, participant joined, configuration resolved, session constructed,
\* metrics observer registered, conversation-item observer registered, session
\* started, greeting spoken. A session that has started has both observers
\* registered, its participant joined and its configuration resolved, and a
\* greeting has been spoken only after the start.
C13_StepsInOrder ==
    /\ IsPrefix(SelectSeq(log, LAMBDA x : \E k \in 1..Len(ClaimedOrder) : ClaimedOrder[k] = x),
                ClaimedOrder)
    /\ Taken("session.start") =>
          /\ observers = {"metrics_collected", "conversation_item_added"}
          /\ Taken("wait_for_participant")
          /\ resolved # NotResolved
    /\ spoken # None => Taken("session.start") /\ epc = "greeted"
    /\ epc \in {"started", "greeted"} <=> Taken("session.start")

\* A run with a loaded configuration has spoken its greeting, every step taken.
C13_Witness ==
    /\ LOADED_CONFIG.loaded
    /\ epc = "greeted"
    /\ spoken = resolved.intro_phrase
    /\ Len(log) = 9

\* The item carries a role: its own, the one of its message, or, neither the item
\* nor a message saying anything of a role, the default.
RolePresent(item) ==
    \/ item.role \notin {None, <<>>}
    \/ item.message \in {"absent", "dict_assistant"}

\* The text the observer extracts holds a character that is no whitespace.
ExtractedNonBlank(item) ==
    IF item.text_content \notin {None, <<>>} THEN NonBlank(item.text_content)
    ELSE CASE item.content.kind = "list" ->
                \E k \in 1..Len(item.content.l) :
                    item.content.l[k].isstr /\ NonBlank(item.content.l[k].s)
           [] item.content.kind = "none" -> FALSE
           [] OTHER -> NonBlank(item.content.s)

ScheduledEvents == {k \in 1..Len(events) : events[k].scheduled}

\* C14: the observer schedules a write for an event exactly when the extracted
\* role is present and the extracted text is non-blank after trimming, one write
\* for each such event; an item that has no role gets the role "user" and its
\* write is scheduled all the same.
C14_SchedulesIffRoleAndText ==
    /\ Len(tasks) = Cardinality(ScheduledEvents)
    /\ \A k \in 1..Len(events) :
         LET e == events[k]
         IN  /\ e.scheduled <=>
                    e.exc = "" /\ RolePresent(e.item) /\ ExtractedNonBlank(e.item)
             /\ (e.item.role = None /\ e.item.message = "absent"
                    /\ ExtractedNonBlank(e.item)) =>
                    e.scheduled /\ e.role = <<"user">>

\* An item without a role has had its write scheduled as the user's, and a blank
\* item has had none.
C14_Witness ==
    /\ Len(events) = 2
    /\ events[1].item = NoRoleItem /\ events[1].scheduled
    /\ events[2].item = BlankItem /\ ~events[2].scheduled
    /\ Len(tasks) = 1 /\ tasks[1].role = <<"user">>

\* The strings of a sequence, first to last, one space between each two.
RECURSIVE SpaceJoined(_)
SpaceJoined(strs) ==
    IF Len(strs) = 0 THEN <<>>
    ELSE IF Len(strs) = 1 THEN strs[1]
    ELSE SpaceJoined(SubSeq(strs, 1, Len(strs) - 1)) \o <<" ">> \o strs[Len(strs)]

\* The string fragments of a list content, in their order.
StringFragments(l) ==
    LET strs == SelectSeq(l, LAMBDA c : c.isstr)
    IN  [k \in 1..Len(strs) |-> strs[k].s]

\* The write of the k-th event, k an event that scheduled one.
TaskOf(k) == tasks[Cardinality({i \in ScheduledEvents : i <= k})]

\* The text an item's content stands for: the string, or the joined fragments.
ContentText(content) ==
    IF content.kind = "list" THEN SpaceJoined(StringFragments(content.l)) ELSE content.s

\* C15 as it was stated: the text handed to the logger is the item's content when
\* that is a single string, and its string fragments joined with single spaces, in
\* their order, when it is a list.
C15_Original ==
    \A k \in ScheduledEvents :
        events[k].item.content.kind \in {"str", "list"} =>
            /\ events[k].text = ContentText(events[k].item.content)
            /\ TaskOf(k).message = events[k].text

\* C15: the text handed to the logger is the item's text_content when that is a
\* non-empty string; otherwise it is the item's content when that is a single
\* string, and the string fragments of the content joined with single spaces, in
\* their order, when it is a list.
C15_TextPassed ==
    \A k \in ScheduledEvents :
        LET it == events[k].item
        IN  /\ TaskOf(k).message = events[k].text
            /\ it.text_content \notin {None, <<>>} => events[k].text = it.text_content
            /\ (it.text_content \in {None, <<>>} /\ it.content.kind \in {"str", "list"}) =>
                    events[k].text = ContentText(it.content)

\* A list of fragments has been logged joined by spaces, and an item with a
\* text_content beside its fragments has been logged with the text_content.
C15_Witness ==
    /\ Len(events) = 2 /\ Len(tasks) = 2
    /\ events[1].item = AssistantItem /\ tasks[1].message = <<"m", " ", "m">>
    /\ events[2].item = BothTextsItem /\ tasks[2].message = <<"a", "\n", "b">>

InFlight(t) == t.pc \in {"scheduled", "connected", "executed"}

\* C16: the logger write is fire-and-forget and the tool call is awaited: with any
\* number of writes in flight the session takes its next conversation item and
\* makes its next tool call, a tool call that has been made starts whatever the
\* writes in flight do, and the model turn that made it goes on only when the
\* call has returned its string.
C16_WritesForgottenToolAwaited ==
    /\ Len(events) < MaxItems => ENABLED ItemAdded(UserItem)
    /\ (rag.pc = "idle" /\ calls < MaxCalls) => ENABLED ToolCall(<<"q">>)
    /\ rag.pc = "scheduled" => ENABLED RagBegin
    /\ rag.pc \in {"scheduled", "connected", "executed"} => ~ENABLED ToolReturn
    /\ rag.pc = "returned" => ENABLED ToolReturn

\* C17: the writes are scheduled in the order the session finalized their items:
\* the writes are, one for one and in order, the events that scheduled one, with
\* the role and the text of each. The order of the inserted rows is another
\* matter: the state C17_Witness, with the later item's row first, is reachable.
C17_ScheduledInOrder ==
    LET sched == SelectSeq(events, LAMBDA e : e.scheduled)
    IN  /\ Len(tasks) = Len(sched)
        /\ \A j \in 1..Len(sched) :
             tasks[j].role = sched[j].role /\ tasks[j].message = sched[j].text

\* Two writes were in flight, and the row of the later item was inserted first.
C17_Witness ==
    /\ Len(events) = 2 /\ events[1].item = UserItem /\ events[2].item = AssistantItem
    /\ Len(tasks) = 2 /\ tasks[1].message = <<"m">> /\ tasks[2].message = <<"m", " ", "m">>
    /\ Len(rows) = 2
    /\ rows[1].message = <<"m", " ", "m">> /\ rows[1].role = <<"assistant">>
    /\ rows[2].message = <<"m">> /\ rows[2].role = <<"user">>

\* C18: the observer never raises into the session: whatever the shape of the
\* event, an error of the extraction is caught inside the observer, no write is
\* scheduled for that event, and the session goes on to its later events.
C18_ObserverNeverRaises ==
    /\ epc \in {"started", "greeted"}
    /\ Len(events) < MaxItems => \A item \in Items : ENABLED ItemAdded(item)
    /\ \A k \in 1..Len(events) : events[k].exc # "" => ~events[k].scheduled
    /\ Len(tasks) = Cardinality({k \in 1..Len(events) :
                        events[k].exc = "" /\ events[k].scheduled})

\* The extraction has failed on an item whose message has no get, no write was
\* scheduled for it, and the next item has been logged.
C18_Witness ==
    /\ Len(events) = 2
    /\ events[1].item = OddMessageItem /\ events[1].exc = "AttributeError"
    /\ ~events[1].scheduled
    /\ events[2].item = UserItem /\ events[2].scheduled
    /\ Len(tasks) = 1 /\ tasks[1].message = <<"m">>

\* The first n characters of s, all of s when it has no more.
FirstChars(s, n) == IF Len(s) <= n THEN s ELSE SubSeq(s, 1, n)

\* C19: the message of every inserted row is at most 65,535 characters long and
\* is the first 65,535 characters of the trimmed message of the write that
\* inserted it; a message no longer than that after trimming is inserted as it
\* is, trimmed.
C19_MessageTruncated ==
    \A r \in 1..Len(rows) :
        /\ Len(rows[r].message) <= 65535
        /\ \E i \in 1..Len(tasks) :
             LET trimmed == Strip(tasks[i].message)
             IN  /\ tasks[i].inserts = 1
                 /\ rows[r].message = FirstChars(trimmed, 65535)
                 /\ Len(trimmed) <= 65535 => rows[r].message = trimmed

\* A message of 65,536 characters between whitespace has been inserted cut to
\* 65,535, its last character gone.
C19_Witness ==
    /\ Len(tasks) = 1 /\ Len(tasks[1].message) = 65538
    /\ tasks[1].message[1] = " " /\ tasks[1].message[65537] = "x"
    /\ Len(rows) = 1 /\ Len(rows[1].message) = 65535
    /\ rows[1].message[65535] = "m"

\* No two sessions of the process have the same instance of one of these
\* capabilities.
OwnInstances(capabilities) ==
    \A i, j \in 1..Len(sessions) :
        i # j => \A c \in capabilities : sessions[i][c] # sessions[j][c]

\* LOADED_CONFIG is written only by _parse_config_and_run, before the worker runs.
ConfigWrittenOnlyAtStart == [][LOADED_CONFIG' # LOADED_CONFIG => epc = "main"]_vars

\* C20 as it was stated: the sessions of one worker process share nothing: each
\* has its own STT, LLM, TTS, VAD and turn-detection instance, and the loaded
\* configuration is written only before any session starts, never by a session,
\* a tool call or a log write.
C20_Original ==
    /\ [](OwnInstances({"stt", "llm", "tts", "vad", "turn_detection"}))
    /\ ConfigWrittenOnlyAtStart

\* C20: each session of one worker process has its own STT, LLM, TTS and
\* turn-detection instance; its VAD is the one prewarm loaded for the process,
\* which the sessions of the process share; and the loaded configuration is
\* written only before any session starts, never by a session, a tool call or a
\* log write.
C20_OwnInstancesButVad ==
    /\ [](/\ OwnInstances({"stt", "llm", "tts", "turn_detection"})
          /\ \A i \in 1..Len(sessions) : userdata # 0 /\ sessions[i].vad = userdata)
    /\ ConfigWrittenOnlyAtStart

\* The second session of a process with a loaded configuration runs, with the
\* VAD of the first and an STT of its own, an item logged and the tool called.
C20_Witness ==
    /\ LOADED_CONFIG.loaded
    /\ Len(sessions) = 2 /\ epc = "greeted"
    /\ sessions[1].vad = sessions[2].vad
    /\ sessions[1].stt # sessions[2].stt
    /\ Len(tasks) >= 1 /\ calls >= 1
====
